---- MODULE Spec2Model ----
(***************************************************************************)
(* A model of the document indexing and retrieval engine of                *)
(* src/src/rag_engine.rs (RAGEngine) as it is held by the serving layer of *)
(* src/src/mcp_server.rs (VoidShrineMCP.rag_engine, an RwLock).            *)
(*                                                                         *)
(* Text is a sequence of one-character strings, so that character offsets, *)
(* trimming, case folding, tokenising and substring counting are computed  *)
(* and not assumed.                                                        *)
(***************************************************************************)
EXTENDS Integers, Sequences, FiniteSets, TLC

VARIABLES
    chunk_size,     \* RAGEngine.chunk_size
    overlap_size,   \* RAGEngine.overlap_size
    documents,      \* table documents: id -> [title, content]
    chunks,         \* table chunks, in rowid order: <<[id, document_id, content, start_pos, end_pos]>>
    chunks_fts,     \* table chunks_fts, in rowid order: <<[chunk_id, content]>>
    iPc,            \* position of the index_document call in progress ("idle": none)
    iDoc,           \* its argument: [id, title, content]
    iResult,        \* how the last index_document call ended: "none", "ok", "err", "panic"
    cStart,         \* create_chunks: start
    cChunks,        \* create_chunks: chunks (the Vec being built, then iterated)
    iIdx,           \* index_document: position of `for chunk in chunks`
    nCalls,         \* index_document calls begun
    nFaults,        \* statements of index_document that returned an error
    lastOk,         \* id -> the chunk Vec of the last index_document call that returned Ok for it
    qry,            \* the last query call: its arguments, the faults met and what it returned
    agent_metrics,  \* VoidShrineMCP.agent_metrics: agent id -> [total_requests, current_load]
    inflight,       \* handle_mcp_request calls past update_agent_metrics that have not returned
    throttle        \* what the last handle_throttle call returned

vars == <<chunk_size, overlap_size, documents, chunks, chunks_fts, iPc, iDoc,
          iResult, cStart, cChunks, iIdx, nCalls, nFaults, lastOk, qry,
          agent_metrics, inflight, throttle>>

mcp == <<agent_metrics, inflight, throttle>>

engine == <<chunk_size, overlap_size, documents, chunks, chunks_fts>>

indexing == <<iPc, iDoc, iResult, cStart, cChunks, iIdx, nCalls, nFaults, lastOk>>

(***************************************************************************)
(* Bounds of the model.                                                    *)
(***************************************************************************)
MaxCalls == 2
MaxChunks == 5
MaxFaults == 1
MaxLimit == 2

(***************************************************************************)
(* Program constants.                                                      *)
(***************************************************************************)
DefaultChunkSize == 512
DefaultOverlapSize == 64
Lookback == 100
CandidateFactor == 5

(***************************************************************************)
(* Characters.                                                             *)
(***************************************************************************)
IsTerminator(c) == c \in {".", "!", "?"}

IsWhitespace(c) == c \in {" ", "\n", "\t"}

Min(a, b) == IF a < b THEN a ELSE b

\* str::trim: drop leading and trailing whitespace.
RECURSIVE TrimStart(_)
TrimStart(s) ==
    IF s # <<>> /\ IsWhitespace(Head(s)) THEN TrimStart(Tail(s)) ELSE s

RECURSIVE TrimEnd(_)
TrimEnd(s) ==
    IF s # <<>> /\ IsWhitespace(s[Len(s)]) THEN TrimEnd(SubSeq(s, 1, Len(s) - 1)) ELSE s

Trim(s) == TrimEnd(TrimStart(s))

\* chars[a..b] for 0-based a, exclusive b.
Slice(chars, a, b) == SubSeq(chars, a + 1, b)

(***************************************************************************)
(* The documents callers submit.  Short texts (below overlap_size) and     *)
(* long ones, with sentence terminators at chosen offsets.                  *)
(***************************************************************************)
Fill(n, dots) == [i \in 1..n |-> IF (i - 1) \in dots THEN "." ELSE "x"]

ShortContents ==
    { <<>>,
      <<" ", "X", " ", "y">>,
      <<"x", "Y", ".">> }

LongContents ==
    { Fill(64, {}),
      Fill(1100, {450, 500, 900}) }

Contents == ShortContents \cup LongContents

DocIds == {"d1", "d2"}

TitleOf(id) == IF id = "d1" THEN "T1" ELSE "T2"

Docs == { [id |-> d, title |-> TitleOf(d), content |-> c] : d \in DocIds, c \in Contents }

(***************************************************************************)
(* create_chunks, one iteration of its loop at a time.                     *)
(***************************************************************************)
\* A loop guard that is off by one (start <= chars.len()).
LoopCond_Inclusive(start, len) == start <= len

\* while start < chars.len()
LoopCond(start, len) == start < len

\* let end = min(start + chunk_size, chars.len())
WindowEnd(start, len) == Min(start + chunk_size, len)

\* (start + chunk_size - 100 .. end): the offsets the boundary search visits.
\* usize arithmetic: below zero the subtraction wraps to a value above end
\* and the range is empty.
SearchRange(start, end) ==
    IF start + chunk_size >= Lookback
    THEN { i \in (start + chunk_size - Lookback)..(end - 1) : TRUE }
    ELSE {}

\* `start + self.chunk_size - 100` is computed in usize, when end < chars.len():
\* below 0 it overflows.
SearchUnderflows(chars, start) ==
    /\ WindowEnd(start, Len(chars)) < Len(chars)
    /\ start + chunk_size < Lookback

\* The last sentence terminator the search finds, as actual_end = i + 1;
\* end when the window reaches the end of the content or holds none.
ActualEnd(chars, start) ==
    LET len == Len(chars)
        end == WindowEnd(start, len)
        hits == { i \in SearchRange(start, end) : i < len /\ IsTerminator(chars[i + 1]) }
    IN  IF end < len /\ hits # {}
        THEN (CHOOSE i \in hits : \A j \in hits : j <= i) + 1
        ELSE end

\* An advance with the sign of the overlap wrong.
NextStart_Forward(actual_end) ==
    IF actual_end >= overlap_size THEN actual_end + overlap_size ELSE actual_end

\* start = if actual_end >= overlap_size { actual_end - overlap_size } else { actual_end }
NextStart(actual_end) ==
    IF actual_end >= overlap_size THEN actual_end - overlap_size ELSE actual_end

\* format!("{}_{}", doc_id, chunks.len())
ChunkId(doc_id, n) == doc_id \o "_" \o ToString(n)

NewChunk(doc_id, chars, start, actual_end, n) ==
    [ id |-> ChunkId(doc_id, n),
      document_id |-> doc_id,
      content |-> Trim(Slice(chars, start, actual_end)),
      start_pos |-> start,
      end_pos |-> actual_end ]

(***************************************************************************)
(* Table operations.                                                       *)
(***************************************************************************)
\* INSERT OR REPLACE INTO chunks: the row with the same primary key is
\* deleted and the new row gets a fresh rowid (it goes last).
ReplaceChunk(table, row) == SelectSeq(table, LAMBDA r : r.id # row.id) \o <<row>>

\* INSERT INTO chunks_fts: always a new row.
InsertFts(table, chunk) == Append(table, [chunk_id |-> chunk.id, content |-> chunk.content])

\* INSERT OR REPLACE INTO documents
ReplaceDocument(table, doc) ==
    [ d \in DOMAIN table \cup {doc.id} |->
        IF d = doc.id THEN [title |-> doc.title, content |-> doc.content] ELSE table[d] ]

NoDoc == [id |-> "", title |-> "", content |-> <<>>]

\* The query texts and limits callers submit.
Queries ==
    { <<"Y", " ", "a">>,
      <<"T", "h", "e", " ", "a">>,
      <<".">>,
      <<>> }

Limits == 0..MaxLimit

\* Where a statement of query can return an error: nowhere, in prepare or
\* bind of the indexed statement, in a row fetch of it (stmt.next()), in
\* prepare or bind of the scan, in a row fetch of the scan.
QueryFaults == {"none", "prepare", "step", "scan_prepare", "scan_step"}

NoQuery ==
    [ text |-> <<>>, limit |-> 0, fault |-> "none", fts_failed |-> FALSE,
      scan_failed |-> FALSE, status |-> "none", path |-> "none", stages |-> <<>>,
      indexed |-> <<>>, results |-> <<>> ]

(***************************************************************************)
(* Text functions of the query path.                                       *)
(***************************************************************************)
UpperCase == <<"A", "B", "C", "D", "E", "F", "G", "H", "I", "J", "K", "L", "M",
               "N", "O", "P", "Q", "R", "S", "T", "U", "V", "W", "X", "Y", "Z">>

LowerCase == <<"a", "b", "c", "d", "e", "f", "g", "h", "i", "j", "k", "l", "m",
               "n", "o", "p", "q", "r", "s", "t", "u", "v", "w", "x", "y", "z">>

Digits == {"0", "1", "2", "3", "4", "5", "6", "7", "8", "9"}

Range(f) == { f[i] : i \in DOMAIN f }

UpperChars == Range(UpperCase)

AlnumChars == Range(UpperCase) \cup Range(LowerCase) \cup Digits

LowerOf == [c \in UpperChars |-> LowerCase[CHOOSE i \in DOMAIN UpperCase : UpperCase[i] = c]]

LowerChar(c) == IF c \in UpperChars THEN LowerOf[c] ELSE c

\* str::to_lowercase
ToLower(s) == [i \in DOMAIN s |-> LowerChar(s[i])]

IsAlnum(c) == c \in AlnumChars

\* str::split_whitespace: the maximal runs of non-whitespace characters.
RECURSIVE SplitWhitespace(_, _, _)
SplitWhitespace(s, word, acc) ==
    IF s = <<>>
    THEN IF word = <<>> THEN acc ELSE Append(acc, word)
    ELSE IF IsWhitespace(Head(s))
         THEN SplitWhitespace(Tail(s), <<>>, IF word = <<>> THEN acc ELSE Append(acc, word))
         ELSE SplitWhitespace(Tail(s), Append(word, Head(s)), acc)

stop_words ==
    { <<"a">>, <<"a", "n">>, <<"a", "n", "d">>, <<"a", "r", "e">>, <<"a", "s">>,
      <<"a", "t">>, <<"b", "e">>, <<"b", "y">>, <<"f", "o", "r">>,
      <<"f", "r", "o", "m">>, <<"h", "a", "s">>, <<"h", "e">>, <<"i", "n">>,
      <<"i", "s">>, <<"i", "t">>, <<"i", "t", "s">>, <<"o", "f">>, <<"o", "n">>,
      <<"t", "h", "a", "t">>, <<"t", "h", "e">>, <<"t", "o">>, <<"w", "a", "s">>,
      <<"w", "i", "l", "l">>, <<"w", "i", "t", "h">> }

\* query.split_whitespace().filter(|word| !stop_words.contains(&word.to_lowercase()))
QueryWords(query) ==
    SelectSeq(SplitWhitespace(query, <<>>, <<>>), LAMBDA w : ToLower(w) \notin stop_words)

RECURSIVE Join(_, _)
Join(parts, sep) ==
    IF parts = <<>> THEN <<>>
    ELSE IF Len(parts) = 1 THEN parts[1]
    ELSE parts[1] \o sep \o Join(Tail(parts), sep)

\* process_query: each remaining word in double quotes, joined with " OR ".
process_query(query) ==
    LET words == QueryWords(query)
        quoted == [i \in DOMAIN words |-> <<"\"">> \o words[i] \o <<"\"">>]
    IN  Join(quoted, <<" ", "O", "R", " ">>)

(***************************************************************************)
(* The full-text index (SQLite FTS5, default tokenizer).                   *)
(***************************************************************************)
\* The match expression as FTS5 reads it: string literals ("" inside one is a
\* quote character) separated by OR give the list of phrases; an empty
\* expression, an unterminated string or anything else is a syntax error
\* (ok = FALSE).
RECURSIVE ParseString(_, _)
ParseString(s, text) ==
    IF s = <<>> THEN [ok |-> FALSE, text |-> text, rest |-> <<>>]
    ELSE IF Head(s) # "\"" THEN ParseString(Tail(s), Append(text, Head(s)))
    ELSE IF Len(s) >= 2 /\ s[2] = "\"" THEN ParseString(Tail(Tail(s)), Append(text, "\""))
    ELSE [ok |-> TRUE, text |-> text, rest |-> Tail(s)]

RECURSIVE ParsePhrases(_, _)
ParsePhrases(s, acc) ==
    IF s = <<>> \/ Head(s) # "\"" THEN [ok |-> FALSE, phrases |-> <<>>]
    ELSE LET p == ParseString(Tail(s), <<>>)
         IN  IF ~p.ok THEN [ok |-> FALSE, phrases |-> <<>>]
             ELSE IF p.rest = <<>> THEN [ok |-> TRUE, phrases |-> Append(acc, p.text)]
             ELSE IF Len(p.rest) > 4 /\ SubSeq(p.rest, 1, 4) = <<" ", "O", "R", " ">>
                  THEN ParsePhrases(SubSeq(p.rest, 5, Len(p.rest)), Append(acc, p.text))
                  ELSE [ok |-> FALSE, phrases |-> <<>>]

ParseMatch(expr) == ParsePhrases(expr, <<>>)

\* unicode61: the maximal runs of alphanumeric characters, case folded.
RECURSIVE Tokenize(_, _, _)
Tokenize(s, tok, acc) ==
    IF s = <<>>
    THEN IF tok = <<>> THEN acc ELSE Append(acc, tok)
    ELSE IF IsAlnum(Head(s))
         THEN Tokenize(Tail(s), Append(tok, LowerChar(Head(s))), acc)
         ELSE Tokenize(Tail(s), <<>>, IF tok = <<>> THEN acc ELSE Append(acc, tok))

Tokens(s) == Tokenize(s, <<>>, <<>>)

\* The number of places where the phrase's tokens occur in a row in the text;
\* a phrase without tokens occurs nowhere.
PhraseCount(phrase, text) ==
    LET p == Tokens(phrase)
        t == Tokens(text)
    IN  IF p = <<>> THEN 0
        ELSE Cardinality({ i \in 1..(Len(t) - Len(p) + 1) : SubSeq(t, i, i + Len(p) - 1) = p })

RECURSIVE SumSeq(_)
SumSeq(s) == IF s = <<>> THEN 0 ELSE Head(s) + SumSeq(Tail(s))

\* How often the phrases of the expression occur in the text (0: no match).
MatchCount(phrases, text) ==
    SumSeq([i \in DOMAIN phrases |-> PhraseCount(phrases[i], text)])

\* Stable sort of records by .score, highest first (slice::sort_by with
\* b.partial_cmp(a); also the order standing in for ORDER BY rank).
\* An insertion that puts a row before the rows of equal score.
RECURSIVE InsertByScore_Unstable(_, _)
InsertByScore_Unstable(sorted, r) ==
    IF sorted = <<>> THEN <<r>>
    ELSE IF Head(sorted).score > r.score
         THEN <<Head(sorted)>> \o InsertByScore_Unstable(Tail(sorted), r)
         ELSE <<r>> \o sorted

RECURSIVE InsertByScore(_, _)
InsertByScore(sorted, r) ==
    IF sorted = <<>> THEN <<r>>
    ELSE IF Head(sorted).score >= r.score
         THEN <<Head(sorted)>> \o InsertByScore(Tail(sorted), r)
         ELSE <<r>> \o sorted

RECURSIVE SortByScore(_, _)
SortByScore(s, acc) ==
    IF s = <<>> THEN acc ELSE SortByScore(Tail(s), InsertByScore(acc, Head(s)))

Take(s, n) == SubSeq(s, 1, Min(n, Len(s)))

\* format!("[Document: {} ({})] {}", title, doc_id, content)
Passage(title, doc_id, content) == <<"[Document: ", title, " (", doc_id, ")] ", content>>

\* FROM chunks_fts cf JOIN chunks c ON cf.chunk_id = c.id
\*                    JOIN documents d ON c.document_id = d.id
\* WHERE chunks_fts MATCH ? ORDER BY rank LIMIT ?
\* The rows, best first.  The rank of FTS5 is its own (bm25); here a row with
\* more occurrences of the phrases ranks higher and equal rows keep rowid order.
IndexedRows(phrases, limit) ==
    LET joined(f) == { i \in DOMAIN chunks :
                         chunks[i].id = f.chunk_id /\ chunks[i].document_id \in DOMAIN documents }
        scored == [i \in DOMAIN chunks_fts |->
                     [score |-> MatchCount(phrases, chunks_fts[i].content),
                      fts |-> chunks_fts[i]]]
        hits == SelectSeq(scored, LAMBDA r : r.score > 0 /\ joined(r.fts) # {})
        ranked == SortByScore(hits, <<>>)
        row(r) == LET c == chunks[CHOOSE i \in joined(r.fts) : TRUE]
                  IN  Passage(documents[c.document_id].title, c.document_id, c.content)
    IN  Take([i \in DOMAIN ranked |-> row(ranked[i])], limit)

(***************************************************************************)
(* fallback_search                                                         *)
(***************************************************************************)
\* str::matches(word).count(): non-overlapping occurrences, left to right.
RECURSIVE CountMatches(_, _)
CountMatches(hay, needle) ==
    IF Len(hay) < Len(needle) THEN 0
    ELSE IF SubSeq(hay, 1, Len(needle)) = needle
         THEN 1 + CountMatches(SubSeq(hay, Len(needle) + 1, Len(hay)), needle)
         ELSE CountMatches(Tail(hay), needle)

\* Sum over the query words of the occurrences in the lower-cased content.
Score(words, content) ==
    SumSeq([i \in DOMAIN words |-> CountMatches(ToLower(content), ToLower(words[i]))])

\* FROM chunks c JOIN documents d ON c.document_id = d.id LIMIT ?, with
\* limit * 5 bound: the first rows of chunks in rowid order.
ScanRows(limit) ==
    Take(SelectSeq(chunks, LAMBDA c : c.document_id \in DOMAIN documents),
         limit * CandidateFactor)

\* A fallback that keeps the rows with score 0.
Candidates_Inclusive(words, rows) ==
    LET scored == [i \in DOMAIN rows |->
                     [score |-> Score(words, rows[i].content),
                      text |-> Passage(documents[rows[i].document_id].title,
                                       rows[i].document_id, rows[i].content)]]
    IN  SelectSeq(scored, LAMBDA r : r.score >= 0)

\* The candidates with score > 0, of the scanned rows that were fetched.
Candidates(words, rows) ==
    LET scored == [i \in DOMAIN rows |->
                     [score |-> Score(words, rows[i].content),
                      text |-> Passage(documents[rows[i].document_id].title,
                                       rows[i].document_id, rows[i].content)]]
    IN  SelectSeq(scored, LAMBDA r : r.score > 0)

\* A fallback that forgets take(limit).
TopResults_All(sorted, limit) == sorted

\* candidates.into_iter().take(limit)
TopResults(sorted, limit) == Take(sorted, limit)

\* sort_by, take(limit), map to the text
FallbackResults(words, rows, limit) ==
    LET top == TopResults(SortByScore(Candidates(words, rows), <<>>), limit)
    IN  [i \in DOMAIN top |-> top[i].text]

NoThrottle ==
    [ agent_id |-> "", should_throttle |-> FALSE, delay_ms |-> 0, reason |-> "none",
      agent_load |-> 0 ]

\* VoidShrineMCP::new: agent_metrics is an empty DashMap.
McpInit ==
    /\ agent_metrics = <<>>
    /\ inflight = 0
    /\ throttle = NoThrottle

(***************************************************************************)
(* RAGEngine::new                                                          *)
(***************************************************************************)
Init ==
    /\ chunk_size = DefaultChunkSize
    /\ overlap_size = DefaultOverlapSize
    /\ documents = <<>>
    /\ chunks = <<>>
    /\ chunks_fts = <<>>
    /\ iPc = "idle"
    /\ iDoc = NoDoc
    /\ iResult = "none"
    /\ cStart = 0
    /\ cChunks = <<>>
    /\ iIdx = 1
    /\ nCalls = 0
    /\ nFaults = 0
    /\ lastOk = <<>>
    /\ qry = NoQuery
    /\ McpInit

(***************************************************************************)
(* index_document.  It takes &mut self: it starts only when no other call  *)
(* on the engine is in progress.                                           *)
(***************************************************************************)
Exclusive == iPc = "idle"

\* INSERT OR REPLACE INTO documents succeeded; create_chunks starts.
IndexBegin(doc) ==
    /\ Exclusive
    /\ nCalls < MaxCalls
    /\ nCalls' = nCalls + 1
    /\ iDoc' = doc
    /\ documents' = ReplaceDocument(documents, doc)
    /\ iPc' = "chunking"
    /\ cStart' = 0
    /\ cChunks' = <<>>
    /\ iIdx' = 1
    /\ iResult' = "none"
    /\ qry' = NoQuery
    /\ UNCHANGED <<chunk_size, overlap_size, chunks, chunks_fts, nFaults, lastOk>>
    /\ UNCHANGED mcp

\* The documents statement returned an error: `?` returns it.
IndexBeginFail(doc) ==
    /\ Exclusive
    /\ nCalls < MaxCalls
    /\ nFaults < MaxFaults
    /\ nCalls' = nCalls + 1
    /\ nFaults' = nFaults + 1
    /\ iDoc' = doc
    /\ iPc' = "idle"
    /\ cStart' = 0
    /\ cChunks' = <<>>
    /\ iIdx' = 1
    /\ iResult' = "err"
    /\ qry' = NoQuery
    /\ UNCHANGED <<chunk_size, overlap_size, documents, chunks, chunks_fts, lastOk>>
    /\ UNCHANGED mcp

\* One pass of `while start < chars.len() { ... }`.  overflow_checks is the
\* build's setting (on in debug builds, off in release builds).
ChunkStep ==
    /\ iPc = "chunking"
    /\ Len(cChunks) < MaxChunks
    /\ \E overflow_checks \in BOOLEAN :
       LET chars == iDoc.content
           len == Len(chars)
           actual_end == ActualEnd(chars, cStart)
           start2 == NextStart(actual_end)
       IN  IF ~LoopCond(cStart, len)
           THEN /\ iPc' = "storing"
                /\ UNCHANGED <<cStart, cChunks, iResult>>
           ELSE IF \/ SearchUnderflows(chars, cStart) /\ overflow_checks
                   \/ actual_end < cStart
                   \/ actual_end > len
           THEN \* the subtraction panics in a build with overflow checks (in one
                \* without it wraps and the range is empty); chars[start..actual_end]
                \* panics
                /\ iPc' = "idle"
                /\ iResult' = "panic"
                /\ UNCHANGED <<cStart, cChunks>>
           ELSE /\ cChunks' = Append(cChunks,
                                NewChunk(iDoc.id, chars, cStart, actual_end, Len(cChunks)))
                /\ cStart' = start2
                /\ iPc' = IF start2 >= len THEN "storing" ELSE "chunking"
                /\ UNCHANGED iResult
    /\ UNCHANGED <<qry, chunk_size, overlap_size, documents, chunks, chunks_fts, iDoc,
                   iIdx, nCalls, nFaults, lastOk>>
    /\ UNCHANGED mcp

\* INSERT OR REPLACE INTO chunks for the current chunk.
InsertChunkRow ==
    /\ iPc = "storing"
    /\ iIdx <= Len(cChunks)
    /\ chunks' = ReplaceChunk(chunks, cChunks[iIdx])
    /\ iPc' = "fts"
    /\ UNCHANGED <<qry, chunk_size, overlap_size, documents, chunks_fts, iDoc, iResult,
                   cStart, cChunks, iIdx, nCalls, nFaults, lastOk>>
    /\ UNCHANGED mcp

InsertChunkRowFail ==
    /\ iPc = "storing"
    /\ iIdx <= Len(cChunks)
    /\ nFaults < MaxFaults
    /\ nFaults' = nFaults + 1
    /\ iPc' = "idle"
    /\ iResult' = "err"
    /\ UNCHANGED <<qry, chunk_size, overlap_size, documents, chunks, chunks_fts, iDoc,
                   cStart, cChunks, iIdx, nCalls, lastOk>>
    /\ UNCHANGED mcp

\* INSERT INTO chunks_fts for the current chunk; on to the next chunk.
InsertFtsRow ==
    /\ iPc = "fts"
    /\ chunks_fts' = InsertFts(chunks_fts, cChunks[iIdx])
    /\ iIdx' = iIdx + 1
    /\ iPc' = "storing"
    /\ UNCHANGED <<qry, chunk_size, overlap_size, documents, chunks, iDoc, iResult,
                   cStart, cChunks, nCalls, nFaults, lastOk>>
    /\ UNCHANGED mcp

InsertFtsRowFail ==
    /\ iPc = "fts"
    /\ nFaults < MaxFaults
    /\ nFaults' = nFaults + 1
    /\ iPc' = "idle"
    /\ iResult' = "err"
    /\ UNCHANGED <<qry, chunk_size, overlap_size, documents, chunks, chunks_fts, iDoc,
                   cStart, cChunks, iIdx, nCalls, lastOk>>
    /\ UNCHANGED mcp

\* The for loop is over: Ok(()).
IndexReturn ==
    /\ iPc = "storing"
    /\ iIdx > Len(cChunks)
    /\ iPc' = "idle"
    /\ iResult' = "ok"
    /\ lastOk' = [ d \in DOMAIN lastOk \cup {iDoc.id} |->
                     IF d = iDoc.id THEN cChunks ELSE lastOk[d] ]
    /\ UNCHANGED <<qry, chunk_size, overlap_size, documents, chunks, chunks_fts, iDoc,
                   cStart, cChunks, iIdx, nCalls, nFaults>>
    /\ UNCHANGED mcp

(***************************************************************************)
(* query.  It takes &self: it runs when no index_document call holds the   *)
(* engine.  fault and k say which statement, if any, returns an error and  *)
(* after how many fetched rows.  A query changes nothing in the engine, so *)
(* qry keeps one query per engine state: the next index_document call      *)
(* clears it.                                                              *)
(***************************************************************************)
Shared == iPc = "idle"

\* `while let Ok(State::Row) = stmt.next()` of the indexed statement: the rows
\* fetched before the loop ends, and whether it ended on an error.  FTS5
\* reports a rejected expression in the first step, which LIMIT 0 never takes.
IndexedFetch(text, limit, fault, k) ==
    LET parsed == ParseMatch(process_query(text))
        rows == IF parsed.ok THEN IndexedRows(parsed.phrases, limit) ELSE <<>>
    IN  [ rows |-> IF fault = "step" THEN Take(rows, k) ELSE rows,
          all |-> rows,
          failed |-> fault = "step" \/ (~parsed.ok /\ limit > 0) ]

\* A query that returns the error of a failed row fetch of the indexed
\* statement instead of dropping it.
QueryOutcome_Strict(text, limit, fault, k) ==
    LET fetch == IndexedFetch(text, limit, fault, k)
        scan == ScanRows(limit)
        scanned == IF fault = "scan_step" THEN Take(scan, k) ELSE scan
        base == [ text |-> text, limit |-> limit, fault |-> fault,
                  fts_failed |-> fetch.failed, scan_failed |-> FALSE,
                  status |-> "ok", path |-> "indexed",
                  stages |-> <<"normalize", "indexed_search", "done">>,
                  indexed |-> fetch.rows, results |-> fetch.rows ]
    IN  IF fault = "prepare" \/ fetch.failed
        THEN [base EXCEPT !.status = "err", !.path = "none", !.indexed = <<>>,
                          !.stages = <<"normalize", "indexed_search">>,
                          !.results = <<>>]
        ELSE IF fetch.rows # <<>>
        THEN base
        ELSE IF fault = "scan_prepare"
        THEN [base EXCEPT !.status = "err", !.path = "fallback",
                          !.stages = <<"normalize", "indexed_search", "fallback_scan">>]
        ELSE [base EXCEPT !.path = "fallback",
                          !.stages = <<"normalize", "indexed_search", "fallback_scan", "done">>,
                          !.scan_failed = (fault = "scan_step"),
                          !.results = FallbackResults(QueryWords(text), scanned, limit)]

\* A query that also falls back when the indexed search returned fewer rows
\* than asked for.
NeedsFallback_Short(results, limit) == Len(results) < limit

\* if results.is_empty()
NeedsFallback(results, limit) == results = <<>>

\* The value query returns, with the rows of the indexed search, the path
\* taken and the steps run, in order: process_query (normalize), the indexed
\* statement with its fetch loop (indexed_search), fallback_search
\* (fallback_scan), the return of Ok (done).
QueryOutcome(text, limit, fault, k) ==
    LET fetch == IndexedFetch(text, limit, fault, k)
        scan == ScanRows(limit)
        scanned == IF fault = "scan_step" THEN Take(scan, k) ELSE scan
        base == [ text |-> text, limit |-> limit, fault |-> fault,
                  fts_failed |-> fetch.failed, scan_failed |-> FALSE,
                  status |-> "ok", path |-> "indexed",
                  stages |-> <<"normalize", "indexed_search", "done">>,
                  indexed |-> fetch.rows, results |-> fetch.rows ]
    IN  IF fault = "prepare"
        THEN [base EXCEPT !.status = "err", !.path = "none", !.indexed = <<>>,
                          !.stages = <<"normalize", "indexed_search">>,
                          !.results = <<>>, !.fts_failed = FALSE]
        ELSE IF ~NeedsFallback(fetch.rows, limit)
        THEN base
        ELSE IF fault = "scan_prepare"
        THEN [base EXCEPT !.status = "err", !.path = "fallback",
                          !.stages = <<"normalize", "indexed_search", "fallback_scan">>]
        ELSE [base EXCEPT !.path = "fallback",
                          !.stages = <<"normalize", "indexed_search", "fallback_scan", "done">>,
                          !.scan_failed = (fault = "scan_step"),
                          !.results = FallbackResults(QueryWords(text), scanned, limit)]

Query(text, limit, fault, k) ==
    /\ Shared
    /\ qry.status = "none"
    /\ fault \notin {"step", "scan_step"} => k = 0
    /\ LET fetch == IndexedFetch(text, limit, fault, k)
       IN  /\ fault = "step" => k <= Len(fetch.all)
           /\ fault \in {"scan_prepare", "scan_step"} => NeedsFallback(fetch.rows, limit)
           /\ fault = "scan_step" => k <= Len(ScanRows(limit))
    /\ qry' = QueryOutcome(text, limit, fault, k)
    /\ UNCHANGED <<engine, indexing>>
    /\ UNCHANGED mcp

Next ==
    \/ \E text \in Queries, limit \in Limits, fault \in QueryFaults, k \in 0..MaxLimit :
          Query(text, limit, fault, k)
    \/ \E doc \in Docs : IndexBegin(doc)
    \/ \E doc \in Docs : IndexBeginFail(doc)
    \/ ChunkStep
    \/ InsertChunkRow
    \/ InsertChunkRowFail
    \/ InsertFtsRow
    \/ InsertFtsRowFail
    \/ IndexReturn

Spec == Init /\ [][Next]_vars

(***************************************************************************)
(* The engine with chunk_size 20 and overlap_size 5, on which callers      *)
(* index the document "Alpha beta. Gamma delta epsilon." and ask for       *)
(* "gamma".  Contents shorter than overlap_size are the ones chunking      *)
(* finishes on.                                                            *)
(***************************************************************************)
ExampleContent ==
    <<"A", "l", "p", "h", "a", " ", "b", "e", "t", "a", ".", " ", "G", "a",
       "m", "m", "a", " ", "d", "e", "l", "t", "a", " ", "e", "p", "s", "i",
       "l", "o", "n", ".">>

ExampleDoc == [id |-> "d1", title |-> "T", content |-> ExampleContent]

ExampleQuery == <<"g", "a", "m", "m", "a">>

ExampleDocs == {ExampleDoc} \cup { d \in Docs : d.content \in ShortContents }

ExampleQueries == {ExampleQuery, <<"Y", " ", "a">>}

InitExample ==
    /\ chunk_size = 20
    /\ overlap_size = 5
    /\ documents = <<>>
    /\ chunks = <<>>
    /\ chunks_fts = <<>>
    /\ iPc = "idle"
    /\ iDoc = NoDoc
    /\ iResult = "none"
    /\ cStart = 0
    /\ cChunks = <<>>
    /\ iIdx = 1
    /\ nCalls = 0
    /\ nFaults = 0
    /\ lastOk = <<>>
    /\ qry = NoQuery
    /\ McpInit

NextExample ==
    \/ \E text \in ExampleQueries, limit \in Limits, fault \in QueryFaults, k \in 0..MaxLimit :
          Query(text, limit, fault, k)
    \/ \E doc \in ExampleDocs : IndexBegin(doc)
    \/ \E doc \in ExampleDocs : IndexBeginFail(doc)
    \/ ChunkStep
    \/ InsertChunkRow
    \/ InsertChunkRowFail
    \/ InsertFtsRow
    \/ InsertFtsRowFail
    \/ IndexReturn

SpecExample == InitExample /\ [][NextExample]_vars

(***************************************************************************)
(* VoidShrineMCP: agent metrics and throttling.  A load is kept in          *)
(* thousandths (0.5 is 500).                                               *)
(***************************************************************************)
MaxRequests == 3
MaxInflight == 2

AgentIds == {"a1", "a2"}

\* An agent id no request has carried.
UnknownAgents == {"a0"}

Methods == {"llm_inference", "rag_query", "status"}

\* rand::random::<f64>() lies in [0, 1): its values in thousandths.
RandSamples == {0, 250, 500, 999}

\* A load formula on a base of 0.5.
NewLoad_High(r) == (r * 4) \div 10 + 500

\* (rand::random::<f64>() * 0.4) + 0.3
NewLoad(r) == (r * 4) \div 10 + 300

\* .entry(agent_id).and_modify(..).or_insert(..), one step under the lock of
\* the entry.
UpdatedMetrics(agent_id, r) ==
    [ a \in DOMAIN agent_metrics \cup {agent_id} |->
        IF a # agent_id THEN agent_metrics[a]
        ELSE IF a \in DOMAIN agent_metrics
             THEN [ total_requests |-> agent_metrics[a].total_requests + 1,
                    current_load |-> NewLoad(r) ]
             ELSE [ total_requests |-> 1, current_load |-> 500 ] ]

\* handle_mcp_request up to its first await: update_agent_metrics.
update_agent_metrics(agent_id, r) ==
    /\ inflight < MaxInflight
    /\ agent_id \in DOMAIN agent_metrics => agent_metrics[agent_id].total_requests < MaxRequests
    /\ agent_metrics' = UpdatedMetrics(agent_id, r)
    /\ inflight' = inflight + 1
    /\ UNCHANGED <<throttle, engine, indexing, qry>>

\* The rest of handle_mcp_request: chaos, the method's handler (or the error
\* for an unsupported method), the response.  It writes no metrics.
McpRespond(method) ==
    /\ inflight > 0
    /\ inflight' = inflight - 1
    /\ UNCHANGED <<agent_metrics, throttle, engine, indexing, qry>>

\* The ThrottleStatus handle_throttle returns.
ThrottleStatus(agent_id) ==
    IF agent_id \in DOMAIN agent_metrics
    THEN LET current_load == agent_metrics[agent_id].current_load
         IN  IF current_load > 800
             THEN [ agent_id |-> agent_id, should_throttle |-> TRUE,
                    delay_ms |-> (current_load - 500) * 5,
                    reason |-> "High agent load detected", agent_load |-> current_load ]
             ELSE [ agent_id |-> agent_id, should_throttle |-> FALSE, delay_ms |-> 0,
                    reason |-> "Normal load", agent_load |-> current_load ]
    ELSE [ agent_id |-> agent_id, should_throttle |-> FALSE, delay_ms |-> 0,
           reason |-> "New agent", agent_load |-> 0 ]

handle_throttle(agent_id) ==
    /\ throttle' = ThrottleStatus(agent_id)
    /\ UNCHANGED <<agent_metrics, inflight, engine, indexing, qry>>

NextMcp ==
    \/ \E agent_id \in AgentIds, r \in RandSamples : update_agent_metrics(agent_id, r)
    \/ \E method \in Methods : McpRespond(method)
    \/ \E agent_id \in AgentIds \cup UnknownAgents : handle_throttle(agent_id)

SpecMcp == Init /\ [][NextMcp]_vars

(***************************************************************************)
(* Properties.                                                             *)
(***************************************************************************)
ChunkRowsOf(id) == { chunks[i] : i \in { j \in DOMAIN chunks : chunks[j].document_id = id } }

FtsRowsOf(chunk_id) == { i \in DOMAIN chunks_fts : chunks_fts[i].chunk_id = chunk_id }

PassageContent(p) == p[6]

\* Every index_document call so far has returned Ok.
AllCallsOk == iPc = "idle" /\ nCalls > 0 /\ nFaults = 0 /\ iResult = "ok"

\* create_chunks of the current call has returned its Vec.
ChunksReturned == iPc \in {"storing", "fts"} \/ (iPc = "idle" /\ iResult = "ok")

\* C1: the chunking loop terminates.  A pass of the loop is a function of
\* start alone (content and configuration do not change), so the loop
\* terminates exactly when it never begins a pass from a start offset it has
\* already processed.
C1_ChunkingTerminates ==
    iPc = "chunking" => \A k \in DOMAIN cChunks : cChunks[k].start_pos # cStart

\* C2: in the chunk sequence of one document every chunk after the first has
\* a start_pos strictly greater than that of the chunk emitted just before it.
C2_StartPosIncreasing ==
    \A k \in 1..(Len(cChunks) - 1) : cChunks[k + 1].start_pos > cChunks[k].start_pos

\* C3: after successful index_document calls, the chunk rows stored for a
\* document id are exactly the chunks of the last content indexed under that
\* id, and a passage the indexed search returns matches the query by its own
\* text (not by text only an older content held).
C3_ReindexReplaces ==
    AllCallsOk =>
        /\ \A id \in DOMAIN lastOk : ChunkRowsOf(id) = Range(lastOk[id])
        /\ (qry.status = "ok" /\ qry.path = "indexed" /\ qry.fault = "none") =>
              \A i \in DOMAIN qry.results :
                  MatchCount(ParseMatch(process_query(qry.text)).phrases,
                             PassageContent(qry.results[i])) > 0

\* C4: after successful index_document calls the full-text index holds exactly
\* one entry per stored chunk id, with the stored chunk's content, and every
\* entry belongs to a stored chunk.
C4_IndexMatchesStore ==
    AllCallsOk =>
        /\ \A i \in DOMAIN chunks :
              /\ Cardinality(FtsRowsOf(chunks[i].id)) = 1
              /\ \A j \in FtsRowsOf(chunks[i].id) : chunks_fts[j].content = chunks[i].content
        /\ \A j \in DOMAIN chunks_fts : \E i \in DOMAIN chunks : chunks[i].id = chunks_fts[j].chunk_id

\* The document row of the current call is stored while one of the call's
\* chunks is missing from the chunk table or from the full-text index.
PartlyWritten ==
    /\ iDoc.id \in DOMAIN documents
    /\ documents[iDoc.id].content = iDoc.content
    /\ \E k \in DOMAIN cChunks :
          \/ cChunks[k] \notin ChunkRowsOf(iDoc.id)
          \/ \A j \in FtsRowsOf(cChunks[k].id) : chunks_fts[j].content # cChunks[k].content

\* C5: an index_document call that returned an error leaves no document
\* visible with only part of its chunk set.
C5_FailedIndexLeavesNothing ==
    (iPc = "idle" /\ iResult = "err") => ~PartlyWritten

\* C6: when a statement of query fails (the index rejects the match
\* expression, a row fetch returns an error), query returns an error and
\* does not go on to the fallback scan.
C6_QueryFailureAborts ==
    /\ (qry.fts_failed \/ qry.scan_failed) => qry.status = "err"
    /\ qry.fts_failed => qry.path # "fallback"

\* C7: the sequence query returns has at most limit elements, from the
\* indexed search and from the fallback scan.
C7_LimitRespected ==
    qry.status = "ok" => Len(qry.results) <= qry.limit

\* The fallback scan had more candidates than the limit and returned limit of them.
C7_Witness ==
    /\ qry.status = "ok"
    /\ qry.path = "fallback"
    /\ qry.limit = 1
    /\ Len(qry.results) = 1
    /\ Len(Candidates(QueryWords(qry.text), ScanRows(qry.limit))) > 1

\* C8: a query runs only while no index_document call is in progress (it
\* sees the store before or after a call, never in between), calls are
\* serialized, and a call that returned Ok has fully superseded the earlier
\* ones for its id: the chunk rows and index entries of the id are those of
\* this call.
C8_AtomicAndSuperseding ==
    /\ qry.status # "none" => iPc = "idle"
    /\ AllCallsOk =>
          /\ ChunkRowsOf(iDoc.id) = Range(cChunks)
          /\ \A j \in DOMAIN chunks_fts :
                \A c \in ChunkRowsOf(iDoc.id) :
                    chunks_fts[j].chunk_id = c.id => chunks_fts[j].content = c.content

\* C9: the chunk spans cover the content without gaps: the first chunk starts
\* at 0, each later chunk starts at or before the end of the previous one and
\* at most overlap_size before it (so does the pass the loop is about to
\* make), and when create_chunks has returned the last chunk ends at
\* len(content), with no chunk only for the empty content.
C9_SpansCoverContent ==
    /\ cChunks # <<>> => cChunks[1].start_pos = 0
    /\ \A k \in 1..(Len(cChunks) - 1) :
          /\ cChunks[k + 1].start_pos <= cChunks[k].end_pos
          /\ cChunks[k + 1].start_pos >= cChunks[k].end_pos - overlap_size
    /\ (iPc = "chunking" /\ cChunks # <<>>) =>
          /\ cStart <= cChunks[Len(cChunks)].end_pos
          /\ cStart >= cChunks[Len(cChunks)].end_pos - overlap_size
    /\ ChunksReturned =>
          IF cChunks = <<>> THEN iDoc.content = <<>>
          ELSE cChunks[Len(cChunks)].end_pos = Len(iDoc.content)

\* Three chunks that overlap by overlap_size, the first cut at a sentence
\* terminator, the last ending at the end of the content.
C9_Witness ==
    /\ Len(cChunks) >= 3
    /\ cChunks[1].end_pos < chunk_size
    /\ cChunks[2].start_pos = cChunks[1].end_pos - overlap_size
    /\ cChunks[3].start_pos = cChunks[2].end_pos - overlap_size
    /\ cChunks[3].end_pos = Len(iDoc.content)

\* C10: every chunk create_chunks emits has 0 <= start_pos < end_pos <=
\* len(content).
C10_SpanBounds ==
    \A k \in DOMAIN cChunks :
        /\ 0 <= cChunks[k].start_pos
        /\ cChunks[k].start_pos < cChunks[k].end_pos
        /\ cChunks[k].end_pos <= Len(iDoc.content)

\* A chunk whose end the sentence-boundary search moved backward.
C10_Witness ==
    \E k \in DOMAIN cChunks :
        /\ cChunks[k].end_pos < Len(iDoc.content)
        /\ cChunks[k].end_pos < cChunks[k].start_pos + chunk_size
        /\ IsTerminator(iDoc.content[cChunks[k].end_pos])

\* The query words all occur, as written, in the content.
OccursVerbatim(words, content) ==
    /\ words # <<>>
    /\ \A i \in DOMAIN words : CountMatches(content, words[i]) > 0

\* C11: after successful index_document calls, a query whose non-stop-word
\* tokens all occur verbatim in the stored content of an indexed chunk, with
\* limit at least the number of stored chunks, returns a passage for that
\* chunk carrying the id and title of its document.
C11_VerbatimRetrieved ==
    (AllCallsOk /\ qry.status # "none" /\ qry.fault = "none"
       /\ qry.limit >= Len(chunks)) =>
        \A i \in DOMAIN chunks :
            (chunks[i].document_id \in DOMAIN documents
               /\ OccursVerbatim(QueryWords(qry.text), chunks[i].content)) =>
                /\ qry.status = "ok"
                /\ \E j \in DOMAIN qry.results :
                      qry.results[j] = Passage(documents[chunks[i].document_id].title,
                                               chunks[i].document_id, chunks[i].content)

\* prepare and bind of the statements the query ran succeeded.
StatementsPrepared == qry.status # "none" /\ qry.fault \notin {"prepare", "scan_prepare"}

\* C12: a query whose whitespace-separated tokens are all stop words (in any
\* letter case), and the empty query, returns Ok with an empty sequence, for
\* every store and limit: the indexed search has no hit and the fallback scan
\* runs and keeps no candidate.
C12_StopWordQueryEmpty ==
    (StatementsPrepared /\ QueryWords(qry.text) = <<>>) =>
        /\ qry.status = "ok"
        /\ qry.indexed = <<>>
        /\ qry.path = "fallback"
        /\ qry.results = <<>>

\* A query of stop words in mixed case, with a positive limit, answered over
\* a store that holds a chunk.
C12_Witness ==
    /\ qry.status = "ok"
    /\ qry.fault = "none"
    /\ qry.text = <<"T", "h", "e", " ", "a">>
    /\ qry.limit > 0
    /\ ScanRows(qry.limit) # <<>>
    /\ qry.results = <<>>

\* No index entry matches the query's expression and no stored chunk holds
\* one of the query's words.
NothingMatches(text) ==
    LET parsed == ParseMatch(process_query(text))
    IN  /\ \A j \in DOMAIN chunks_fts :
              parsed.ok => MatchCount(parsed.phrases, chunks_fts[j].content) = 0
        /\ \A i \in DOMAIN chunks : Score(QueryWords(text), chunks[i].content) = 0

\* C13: a query that matches nothing returns Ok with an empty sequence, not
\* an error: on an engine with no indexed document and on any store where no
\* chunk matches, for every query text and limit.
C13_NoMatchIsOk ==
    (StatementsPrepared /\ (documents = <<>> \/ NothingMatches(qry.text))) =>
        /\ qry.status = "ok"
        /\ qry.results = <<>>

\* A query with a search word answered over a store whose chunks do not hold it.
C13_Witness ==
    /\ qry.status = "ok"
    /\ qry.fault = "none"
    /\ qry.limit > 0
    /\ QueryWords(qry.text) # <<>>
    /\ chunks # <<>>
    /\ NothingMatches(qry.text)
    /\ qry.results = <<>>

\* C15: a query that ran its statements goes through the pipeline once, in
\* the order normalize, indexed search, (fallback scan,) done, and ends with
\* a result: it takes the fallback scan, once, exactly when the indexed
\* search produced no row, and otherwise returns the rows of the indexed
\* search, in their ranked order, untouched by the fallback.
C15_FallbackIffNoIndexedRow ==
    StatementsPrepared =>
        /\ qry.status = "ok"
        /\ qry.stages \in { <<"normalize", "indexed_search", "done">>,
                            <<"normalize", "indexed_search", "fallback_scan", "done">> }
        /\ (\E n \in DOMAIN qry.stages : qry.stages[n] = "fallback_scan") <=> qry.indexed = <<>>
        /\ qry.path = "fallback" <=> qry.indexed = <<>>
        /\ qry.indexed # <<>> => qry.results = qry.indexed
        /\ (qry.fault = "none" /\ qry.indexed # <<>>) =>
              qry.results = IndexedFetch(qry.text, qry.limit, "none", 0).all

\* The indexed search returned fewer rows than the limit, of a store where
\* the fallback scan would have found more, and the query returned them.
C15_Witness ==
    /\ qry.status = "ok"
    /\ qry.fault = "none"
    /\ qry.path = "indexed"
    /\ Len(qry.indexed) = 1
    /\ qry.limit = 2
    /\ Len(FallbackResults(QueryWords(qry.text), ScanRows(qry.limit), qry.limit)) = 2

\* The number of places of the lower-cased content where the lower-cased
\* token begins.
Occurrences(token, content) ==
    LET t == ToLower(token)
        c == ToLower(content)
    IN  Cardinality({ p \in 1..(Len(c) - Len(t) + 1) : SubSeq(c, p, p + Len(t) - 1) = t })

\* The reference result of the fallback scan over the store: of the first
\* limit * CandidateFactor chunks in scan order, those with a score above 0,
\* by score descending and scan order among equals, the first limit.
ReferenceFallback(text, limit) ==
    LET words == QueryWords(text)
        scanOrder == { i \in DOMAIN chunks : chunks[i].document_id \in DOMAIN documents }
        first == { i \in scanOrder :
                     Cardinality({ j \in scanOrder : j < i }) < limit * CandidateFactor }
        total(i) == SumSeq([w \in DOMAIN words |-> Occurrences(words[w], chunks[i].content)])
        kept == { i \in first : total(i) > 0 }
        before(i) == { j \in kept : total(j) > total(i) \/ (total(j) = total(i) /\ j < i) }
        at(n) == CHOOSE i \in kept : Cardinality(before(i)) = n - 1
        size == Min(limit, Cardinality(kept))
    IN  [ n \in 1..size |->
            [ score |-> total(at(n)),
              text |-> Passage(documents[chunks[at(n)].document_id].title,
                               chunks[at(n)].document_id, chunks[at(n)].content) ] ]

Contains(passage, text) == CountMatches(PassageContent(passage), text) > 0

\* The store holds the example document, indexed by a call that returned Ok.
ExampleIndexed ==
    /\ AllCallsOk
    /\ "d1" \in DOMAIN documents
    /\ documents["d1"].content = ExampleContent

C17_NeverThrottles ==
    /\ \A a \in DOMAIN agent_metrics :
          /\ agent_metrics[a].current_load >= 300
          /\ agent_metrics[a].current_load <= 700
          /\ agent_metrics[a].total_requests = 1 => agent_metrics[a].current_load = 500
    /\ throttle.should_throttle = FALSE
    /\ throttle.delay_ms = 0
    /\ throttle.reason # "High agent load detected"
    /\ \A a \in AgentIds \cup UnknownAgents :
          ~ThrottleStatus(a).should_throttle /\ ThrottleStatus(a).delay_ms = 0

\* handle_throttle answered for an agent at the top of the load range while
\* another request was in progress.
C17_Witness ==
    /\ throttle.reason = "Normal load"
    /\ throttle.agent_load = NewLoad(999)
    /\ agent_metrics[throttle.agent_id].total_requests > 1
    /\ inflight > 0

====
